---- MODULE Spec2Model ----
(***************************************************************************)
(* A model of the cerios-builder library: the plain-record builder         *)
(* (CeriosBuilder) and the class-instance builder (CeriosClassBuilder).    *)
(*                                                                         *)
(* JavaScript objects have identity, so the model keeps a heap: builders   *)
(* hold a reference to their partial instance (_actual), transitions       *)
(* allocate new objects, and a finalize operation returns a reference.     *)
(* Sharing between builders and returned values is therefore visible.      *)
(***************************************************************************)
EXTENDS Integers, Sequences, FiniteSets, TLC

VARIABLES
  heap,        \* the objects and arrays allocated so far, by identity
  builders,    \* the builder objects constructed so far, by identity
  ret,         \* the outcome of the last call
  registered,  \* per builder: the required-field list its caller last gave
               \* for it (constructor argument or setRequiredFields), as given
  lineage,     \* per builder: the call that made it and its receiver
  validators,  \* per builder: the validators registered on it, in order
  writes       \* the number of writes of the caller into finished values

vars == <<heap, builders, ret, registered, lineage, validators, writes>>

(***************************************************************************)
(* Bounds of the exploration.                                              *)
(***************************************************************************)
\* builders the caller holds; builders in SpecV, where required fields are
\* registered too; objects in the heap; caller writes into returned values;
\* validators registered on one builder
MaxBuilders == 3
MaxChain == 2
MaxHeap == 9
MaxWrites == 1
MaxValidators == 3

(***************************************************************************)
(* JavaScript values.  A value is a scalar or a reference into the heap.   *)
(* "absent" marks a property slot that holds no own property; it is never  *)
(* a value the program can read (a read of an absent slot gives undefined).*)
(***************************************************************************)
Absent == [t |-> "absent", v |-> 0]
Undef == [t |-> "undef", v |-> 0]
Null == [t |-> "null", v |-> 0]
Num(n) == [t |-> "num", v |-> n]
Ref(i) == [t |-> "ref", v |-> i]

Keys == {"a", "b"}
KeyOrder == <<"a", "b">>

NoProps == [k \in Keys |-> Absent]

\* A new object or array is extensible: lock is "open".  Object.seal makes
\* it "sealed", Object.freeze makes it "frozen".
ObjOf(props) == [kind |-> "obj", props |-> props, elems |-> <<>>, lock |-> "open"]
ArrOf(elems) == [kind |-> "arr", props |-> NoProps, elems |-> elems, lock |-> "open"]

IsNullish(v) == v.t \in {"undef", "null", "absent"}

\* typeof v === "object" && v !== null
IsObject(v) == v.t = "ref"

\* obj[key] for an object of the heap: an absent slot reads as undefined.
Get(h, v, key) ==
  IF h[v.v].props[key].t = "absent" THEN Undef ELSE h[v.v].props[key]

\* key in obj, for an object of the heap
HasKey(h, v, key) == h[v.v].props[key].t # "absent"

(***************************************************************************)
(* Deep content of a value: the set of <<path, tag, number>> entries of    *)
(* the tree below it.  Two values are deeply equal (toEqual) iff their     *)
(* contents are equal; identity plays no part in it.                       *)
(***************************************************************************)
IdxName == <<"#0", "#1", "#2", "#3", "#4", "#5">>

RECURSIVE Flat(_, _, _)
Flat(h, v, p) ==
  IF v.t = "ref"
  THEN LET o == h[v.v] IN
       {<<p, o.kind, 0>>}
         \cup UNION {Flat(h, o.elems[i], Append(p, IdxName[i])) : i \in 1..Len(o.elems)}
         \cup UNION {Flat(h, o.props[k], Append(p, k)) :
                       k \in {kk \in Keys : o.props[kk].t # "absent"}}
  ELSE {<<p, v.t, v.v>>}

Content(h, v) == Flat(h, v, <<>>)

\* The heap objects reachable from a value.
RECURSIVE Reach(_, _)
Reach(h, v) ==
  IF v.t # "ref" THEN {}
  ELSE LET o == h[v.v] IN
       {v.v} \cup UNION {Reach(h, o.elems[i]) : i \in 1..Len(o.elems)}
             \cup UNION {Reach(h, o.props[k]) : k \in Keys}

(***************************************************************************)
(* Values the caller hands to the builder.  A literal names a value the    *)
(* caller writes in its own code; an object or array literal is allocated  *)
(* in the heap at the moment of the call.                                  *)
(***************************************************************************)
Scalars == {"undef", "null", "n1"}
Literals == Scalars \cup {"objB1", "arr1"}

ScalarOf(lit) ==
  CASE lit = "undef" -> Undef
    [] lit = "null" -> Null
    [] lit = "n1" -> Num(1)
    [] lit = "n2" -> Num(2)

\* Alloc(h, lit) = <<heap after the allocation, the value>>
Alloc(h, lit) ==
  CASE lit = "objB1" ->
         [h |-> Append(h, ObjOf([NoProps EXCEPT !["b"] = Num(1)])), v |-> Ref(Len(h) + 1)]
    [] lit = "arr1" ->
         [h |-> Append(h, ArrOf(<<Num(1)>>)), v |-> Ref(Len(h) + 1)]
    [] lit = "empty" ->
         [h |-> Append(h, ObjOf(NoProps)), v |-> Ref(Len(h) + 1)]
    [] OTHER -> [h |-> h, v |-> ScalarOf(lit)]

(***************************************************************************)
(* Addresses.  A path string is a sequence of tokens, field names          *)
(* separated by "."; split(".") gives its segments.                        *)
(***************************************************************************)
PathA == <<"a">>
PathB == <<"b">>
PathAB == <<"a", ".", "b">>
PathAA == <<"a", ".", "a">>
PathABA == <<"a", ".", "b", ".", "a">>
Paths == {PathA, PathB, PathAB}

\* path.split(".")
Split(path) == SelectSeq(path, LAMBDA tok : tok # ".")

\* [...new Set(list)]: the first occurrence of each element, in order
RECURSIVE Dedup(_)
Dedup(list) ==
  IF list = <<>> THEN <<>>
  ELSE LET init == Dedup(SubSeq(list, 1, Len(list) - 1))
           last == list[Len(list)]
       IN IF \E i \in 1..Len(init) : init[i] = last THEN init ELSE Append(init, last)

\* missing.includes(path)
Includes(list, x) == \E i \in 1..Len(list) : list[i] = x

\* missing.join(", ")
RECURSIVE Join(_)
Join(list) ==
  IF list = <<>> THEN <<>>
  ELSE IF Len(list) = 1 THEN list[1]
  ELSE list[1] \o <<", ">> \o Join(Tail(list))

(***************************************************************************)
(* deepClone: scalars are returned as they are; an array is mapped item    *)
(* by item into a new array (named properties are not copied); an object   *)
(* is copied own key by own key into a new object.  The result is          *)
(* [h |-> heap after the allocations, v |-> the clone].                    *)
(***************************************************************************)
RECURSIVE deepClone(_, _)
RECURSIVE CloneElems(_, _, _, _)
RECURSIVE CloneProps(_, _, _, _)

\* obj.map(item => this.deepClone(item)), items from i on, acc the clones so far
CloneElems(h, elems, i, acc) ==
  IF i > Len(elems) THEN [h |-> h, v |-> acc]
  ELSE LET r == deepClone(h, elems[i])
       IN CloneElems(r.h, elems, i + 1, Append(acc, r.v))

\* for (const key in obj) cloned[key] = this.deepClone(obj[key])
CloneProps(h, props, i, acc) ==
  IF i > Len(KeyOrder) THEN [h |-> h, v |-> acc]
  ELSE LET key == KeyOrder[i] IN
       IF props[key].t = "absent" THEN CloneProps(h, props, i + 1, acc)
       ELSE LET r == deepClone(h, props[key])
            IN CloneProps(r.h, props, i + 1, [acc EXCEPT ![key] = r.v])

deepClone(h, v) ==
  IF v.t # "ref" THEN [h |-> h, v |-> v]
  ELSE IF h[v.v].kind = "arr"
  THEN LET r == CloneElems(h, h[v.v].elems, 1, <<>>)
       IN [h |-> Append(r.h, ArrOf(r.v)), v |-> Ref(Len(r.h) + 1)]
  ELSE LET r == CloneProps(h, h[v.v].props, 1, NoProps)
       IN [h |-> Append(r.h, ObjOf(r.v)), v |-> Ref(Len(r.h) + 1)]

(***************************************************************************)
(* Object.freeze and Object.seal, and the recursive deepFreeze / deepSeal. *)
(***************************************************************************)
\* Object.freeze(o)
Freeze(h, o) == [h EXCEPT ![o].lock = "frozen"]

\* Object.seal(o): a frozen object stays frozen
Seal(h, o) == [h EXCEPT ![o].lock = IF @ = "frozen" THEN "frozen" ELSE "sealed"]

\* Object.isSealed(o)
IsSealed(h, o) == h[o].lock # "open"

\* Object.isFrozen(o): a sealed plain object without own properties is frozen
\* too (an array keeps its writable length)
IsFrozen(h, o) ==
  \/ h[o].lock = "frozen"
  \/ /\ h[o].lock = "sealed"
     /\ h[o].kind = "obj"
     /\ \A k \in Keys : h[o].props[k].t = "absent"

\* The values of Object.getOwnPropertyNames(o).map(prop => o[prop]) that are
\* objects: the elements, then the named properties
OwnValues(h, o) ==
  LET named == SelectSeq(KeyOrder, LAMBDA k : h[o].props[k].t # "absent")
  IN h[o].elems \o [i \in 1..Len(named) |-> h[o].props[named[i]]]

RECURSIVE deepFreeze(_, _)
RECURSIVE FreezeEach(_, _, _)
FreezeEach(h, vals, i) ==
  IF i > Len(vals) THEN h
  ELSE FreezeEach(IF vals[i].t = "ref" THEN deepFreeze(h, vals[i].v) ELSE h, vals, i + 1)

\* deepFreeze with the bug of freezing only the object itself
deepFreezeShallow(h, o) == Freeze(h, o)

\* deepFreeze(obj): the properties first, then obj itself
deepFreeze(h, o) == Freeze(FreezeEach(h, OwnValues(h, o), 1), o)

RECURSIVE deepSeal(_, _)
RECURSIVE SealEach(_, _, _)
SealEach(h, vals, i) ==
  IF i > Len(vals) THEN h
  ELSE SealEach(IF vals[i].t = "ref" THEN deepSeal(h, vals[i].v) ELSE h, vals, i + 1)

\* deepSeal(obj): the properties first, then obj itself
deepSeal(h, o) == Seal(SealEach(h, OwnValues(h, o), 1), o)

(***************************************************************************)
(* Builder classes.  A concrete builder class extends CeriosBuilder (the   *)
(* plain-record family) or CeriosClassBuilder (the class-instance family). *)
(*   PlainBuilder   extends CeriosBuilder, declares no requiredTemplate;   *)
(*   UserBuilder    extends CeriosBuilder with                             *)
(*                  requiredTemplate = ["a", "a.b", "a"];                  *)
(*   OrderRequestBuilder extends the CeriosBuilder of cerios-builder.ts    *)
(*                  (the other two extend the CeriosBuilder that           *)
(*                  cerios-class-builder.ts declares), with                *)
(*                  requiredTemplate = ["b"];                              *)
(*   PersonBuilder  extends CeriosClassBuilder for a class whose           *)
(*                  constructor does Object.assign(this, data);            *)
(*   AddressBuilder extends CeriosClassBuilder for a class that declares   *)
(*                  no constructor and no field initialiser;               *)
(*   CounterBuilder extends CeriosClassBuilder for a class that declares   *)
(*                  no constructor and the field initialiser a = 0.        *)
(* A builder value is [cls, actual, req]: its class, the reference         *)
(* _actual and the dynamic set _requiredFields (a Set, kept in insertion   *)
(* order; CeriosClassBuilder has no such field and the list is empty).     *)
(***************************************************************************)
RecordClasses == {"PlainBuilder", "UserBuilder", "OrderRequestBuilder"}
ClassClasses == {"PersonBuilder", "AddressBuilder", "CounterBuilder"}
BuilderClasses == RecordClasses \cup ClassClasses

requiredTemplate(cls) ==
  CASE cls = "UserBuilder" -> <<PathA, PathAB, PathA>>
    [] cls = "OrderRequestBuilder" -> <<PathB>>
    [] OTHER -> <<>>

\* the outcome of a call, kept so that properties can speak about it
Out(op, recv, kind, b, val, msg) ==
  [op |-> op, recv |-> recv, kind |-> kind, b |-> b, val |-> val, msg |-> msg]

\* CeriosBuilder's constructor(_actual, _requiredFields?): reqArg is <<FALSE>>
\* for an omitted argument and <<TRUE, list>> for a given one
NewBuilder(cls, actual, reqArg) ==
  [cls |-> cls, actual |-> actual,
   req |-> IF reqArg[1] THEN Dedup(reqArg[2]) ELSE <<>>]

\* CeriosClassBuilder's constructor(classConstructor, data): a subclass that
\* passes on further arguments (validators, requiredFields) has them ignored
NewClassBuilder(cls, actual, reqArg) ==
  [cls |-> cls, actual |-> actual, req |-> <<>>]

\* Array.from(this._requiredFields)
ReqArg(bld) == <<TRUE, bld.req>>

\* CeriosClassBuilder.createBuilder(data): new BuilderClass(this._classConstructor, data)
createBuilder(bld, actual) ==
  NewClassBuilder(bld.cls, actual, <<FALSE>>)

\* The builder a transition of bld returns, around the new partial instance
Derive(bld, actual) ==
  IF bld.cls \in ClassClasses
  THEN createBuilder(bld, actual)
  ELSE NewBuilder(bld.cls, actual, ReqArg(bld))

\* setProperty with the bug of starting from an empty object instead of
\* spreading this._actual
setPropertyAlone(h, bs, b, key, lit) ==
  LET a == Alloc(h, lit)
      obj == ObjOf([NoProps EXCEPT ![key] = a.v])
      h2 == Append(a.h, obj)
  IN [h |-> h2,
      bs |-> Append(bs, Derive(bs[b], Ref(Len(h2)))),
      out |-> Out("setProperty", b, "builder", Len(bs) + 1, Undef, <<>>)]

\* setProperty with the bug of assigning into this._actual and handing the
\* same object to the new builder
setPropertyInPlace(h, bs, b, key, lit) ==
  LET a == Alloc(h, lit)
      h2 == [a.h EXCEPT ![bs[b].actual.v].props[key] = a.v]
  IN [h |-> h2,
      bs |-> Append(bs, Derive(bs[b], bs[b].actual)),
      out |-> Out("setProperty", b, "builder", Len(bs) + 1, Undef, <<>>)]

\* setProperty with the bug of writing every key of T, the ones never set
\* with the value undefined: {a: this._actual.a, b: this._actual.b, [key]: value}
setPropertyEveryKey(h, bs, b, key, lit) ==
  LET a == Alloc(h, lit)
      old == h[bs[b].actual.v].props
      obj == ObjOf([[k \in Keys |-> IF old[k].t = "absent" THEN Undef ELSE old[k]]
                      EXCEPT ![key] = a.v])
      h2 == Append(a.h, obj)
  IN [h |-> h2,
      bs |-> Append(bs, Derive(bs[b], Ref(Len(h2)))),
      out |-> Out("setProperty", b, "builder", Len(bs) + 1, Undef, <<>>)]

\* {...this._actual, [key]: value}
setProperty(h, bs, b, key, lit) ==
  LET a == Alloc(h, lit)
      obj == ObjOf([h[bs[b].actual.v].props EXCEPT ![key] = a.v])
      h2 == Append(a.h, obj)
  IN [h |-> h2,
      bs |-> Append(bs, Derive(bs[b], Ref(Len(h2)))),
      out |-> Out("setProperty", b, "builder", Len(bs) + 1, Undef, <<>>)]

\* Object spread of props over target: {...target, ...props}
Spread(target, props) ==
  [k \in Keys |-> IF props[k].t = "absent" THEN target[k] ELSE props[k]]

\* setProperties with the bug of spreading in the other order:
\* {...props, ...this._actual}
setPropertiesUnderneath(h, bs, b, props) ==
  LET obj == ObjOf(Spread(props, h[bs[b].actual.v].props))
      h2 == Append(h, obj)
  IN [h |-> h2,
      bs |-> Append(bs, Derive(bs[b], Ref(Len(h2)))),
      out |-> Out("setProperties", b, "builder", Len(bs) + 1, Undef, <<>>)]

\* {...this._actual, ...props}
setProperties(h, bs, b, props) ==
  LET obj == ObjOf(Spread(h[bs[b].actual.v].props, props))
      h2 == Append(h, obj)
  IN [h |-> h2,
      bs |-> Append(bs, Derive(bs[b], Ref(Len(h2)))),
      out |-> Out("setProperties", b, "builder", Len(bs) + 1, Undef, <<>>)]

\* The loop of setNestedProperty over keys[i..], current being heap object cur,
\* and the final assignment current[keys[last]] = value.  Gives the heap.
RECURSIVE NestedWalk(_, _, _, _, _)
\* NestedWalk with the bug of putting a new empty object at every
\* intermediate segment, also where an object is already
NestedWalkDroppingSiblings(h, cur, keys, i, value) ==
  LET key == keys[i] IN
  IF i = Len(keys)
  THEN [h EXCEPT ![cur].props[key] = value]
  ELSE LET h1 == Append(h, ObjOf(NoProps))
           h2 == [h1 EXCEPT ![cur].props[key] = Ref(Len(h1))]
       IN NestedWalk(h2, Len(h1), keys, i + 1, value)

NestedWalk(h, cur, keys, i, value) ==
  LET key == keys[i] IN
  IF i = Len(keys)
  THEN [h EXCEPT ![cur].props[key] = value]
  ELSE IF ~HasKey(h, Ref(cur), key) \/ ~IsObject(Get(h, Ref(cur), key))
  THEN LET h1 == Append(h, ObjOf(NoProps))
           h2 == [h1 EXCEPT ![cur].props[key] = Ref(Len(h1))]
       IN NestedWalk(h2, Len(h1), keys, i + 1, value)
  ELSE LET r == deepClone(h, Get(h, Ref(cur), key))
           h2 == [r.h EXCEPT ![cur].props[key] = r.v]
       IN NestedWalk(h2, r.v.v, keys, i + 1, value)

\* setNestedProperty with the bug of walking this._actual itself, not a clone
setNestedPropertyNoClone(h, bs, b, path, lit) ==
  LET a == Alloc(h, lit)
      keys == Split(path)
      h2 == NestedWalk(a.h, bs[b].actual.v, keys, 1, a.v)
  IN [h |-> h2,
      bs |-> Append(bs, Derive(bs[b], bs[b].actual)),
      out |-> Out("setNestedProperty", b, "builder", Len(bs) + 1, Undef, <<>>)]

setNestedProperty(h, bs, b, path, lit) ==
  LET a == Alloc(h, lit)
      keys == Split(path)
      newActual == deepClone(a.h, bs[b].actual)
      h2 == NestedWalk(newActual.h, newActual.v.v, keys, 1, a.v)
  IN [h |-> h2,
      bs |-> Append(bs, Derive(bs[b], newActual.v)),
      out |-> Out("setNestedProperty", b, "builder", Len(bs) + 1, Undef, <<>>)]

\* addToArrayProperty with the bug of not spreading this._actual:
\* {[key]: [...currentArray, value]}
addToArrayPropertyAlone(h, bs, b, key, lit) ==
  LET a == Alloc(h, lit)
      cur == Get(a.h, bs[b].actual, key)
      iterable == IsNullish(cur) \/ (cur.t = "ref" /\ a.h[cur.v].kind = "arr")
      currentArray == IF IsNullish(cur) THEN <<>> ELSE a.h[cur.v].elems
      h1 == Append(a.h, ArrOf(Append(currentArray, a.v)))
      obj == ObjOf([NoProps EXCEPT ![key] = Ref(Len(h1))])
      h2 == Append(h1, obj)
  IN IF iterable
     THEN [h |-> h2,
           bs |-> Append(bs, Derive(bs[b], Ref(Len(h2)))),
           out |-> Out("addToArrayProperty", b, "builder", Len(bs) + 1, Undef, <<>>)]
     ELSE [h |-> a.h, bs |-> bs,
           out |-> Out("addToArrayProperty", b, "typeerror", 0, Undef, <<>>)]

\* addToArrayProperty with the bug of putting the value in front:
\* [value, ...currentArray]
addToArrayPropertyInFront(h, bs, b, key, lit) ==
  LET a == Alloc(h, lit)
      cur == Get(a.h, bs[b].actual, key)
      iterable == IsNullish(cur) \/ (cur.t = "ref" /\ a.h[cur.v].kind = "arr")
      currentArray == IF IsNullish(cur) THEN <<>> ELSE a.h[cur.v].elems
      h1 == Append(a.h, ArrOf(<<a.v>> \o currentArray))
      obj == ObjOf([a.h[bs[b].actual.v].props EXCEPT ![key] = Ref(Len(h1))])
      h2 == Append(h1, obj)
  IN IF iterable
     THEN [h |-> h2,
           bs |-> Append(bs, Derive(bs[b], Ref(Len(h2)))),
           out |-> Out("addToArrayProperty", b, "builder", Len(bs) + 1, Undef, <<>>)]
     ELSE [h |-> a.h, bs |-> bs,
           out |-> Out("addToArrayProperty", b, "typeerror", 0, Undef, <<>>)]

\* [...currentArray, value] with currentArray = this._actual[key] ?? [].
\* Spreading a value that is not iterable (a number, a plain object) throws
\* a TypeError and no builder is made.
addToArrayProperty(h, bs, b, key, lit) ==
  LET a == Alloc(h, lit)
      cur == Get(a.h, bs[b].actual, key)
      iterable == IsNullish(cur) \/ (cur.t = "ref" /\ a.h[cur.v].kind = "arr")
      currentArray == IF IsNullish(cur) THEN <<>> ELSE a.h[cur.v].elems
      h1 == Append(a.h, ArrOf(Append(currentArray, a.v)))
      obj == ObjOf([a.h[bs[b].actual.v].props EXCEPT ![key] = Ref(Len(h1))])
      h2 == Append(h1, obj)
  IN IF iterable
     THEN [h |-> h2,
           bs |-> Append(bs, Derive(bs[b], Ref(Len(h2)))),
           out |-> Out("addToArrayProperty", b, "builder", Len(bs) + 1, Undef, <<>>)]
     ELSE [h |-> a.h, bs |-> bs,
           out |-> Out("addToArrayProperty", b, "typeerror", 0, Undef, <<>>)]

\* setRequiredFields with the bug of adding to the set instead of replacing it
setRequiredFieldsMerge(h, bs, b, fields) ==
  [h |-> h,
   bs |-> [bs EXCEPT ![b].req = Dedup(bs[b].req \o fields)],
   out |-> Out("setRequiredFields", b, "builder", b, Undef, <<>>)]

\* setRequiredFields(fields): assigns this._requiredFields and returns this
setRequiredFields(h, bs, b, fields) ==
  [h |-> h,
   bs |-> [bs EXCEPT ![b].req = Dedup(fields)],
   out |-> Out("setRequiredFields", b, "builder", b, Undef, <<>>)]

(***************************************************************************)
(* Required fields.                                                        *)
(***************************************************************************)
\* getRequiredTemplate with the bug of listing the instance fields first
getRequiredTemplateInstanceFirst(bld) == Dedup(bld.req \o requiredTemplate(bld.cls))

\* getRequiredTemplate with the bug of not deduplicating
getRequiredTemplateNoDedup(bld) == requiredTemplate(bld.cls) \o bld.req

\* [...new Set([...staticFields, ...instanceFields])]
getRequiredTemplate(bld) == Dedup(requiredTemplate(bld.cls) \o bld.req)

\* The inner loop of validateRequiredFields for one path: walks keys[i..]
\* from current.  st is "broke" (the path was pushed and the loop left),
\* "done" (the loop ran to its end) or "throw" (the in operator was applied
\* to a number, which raises a TypeError).
RECURSIVE WalkPath(_, _, _, _)
\* WalkPath with the bug of taking an object or array at the end of the
\* path for a missing value
WalkPathLeafOnly(h, current, keys, i) ==
  IF i > Len(keys)
  THEN [st |-> IF current.t = "ref" THEN "broke" ELSE "done", cur |-> current]
  ELSE IF IsNullish(current) THEN [st |-> "broke", cur |-> current]
  ELSE IF current.t # "ref" THEN [st |-> "throw", cur |-> current]
  ELSE IF ~HasKey(h, current, keys[i]) THEN [st |-> "broke", cur |-> current]
  ELSE WalkPath(h, Get(h, current, keys[i]), keys, i + 1)

WalkPath(h, current, keys, i) ==
  IF i > Len(keys) THEN [st |-> "done", cur |-> current]
  ELSE IF IsNullish(current) THEN [st |-> "broke", cur |-> current]
  ELSE IF current.t # "ref" THEN [st |-> "throw", cur |-> current]
  ELSE IF ~HasKey(h, current, keys[i]) THEN [st |-> "broke", cur |-> current]
  ELSE WalkPath(h, Get(h, current, keys[i]), keys, i + 1)

\* The outer loop over requiredPaths[i..]; missing is the list so far.
RECURSIVE ValidateLoop(_, _, _, _, _)
ValidateLoop(h, actual, requiredPaths, i, missing) ==
  IF i > Len(requiredPaths) THEN [threw |-> FALSE, missing |-> missing]
  ELSE LET path == requiredPaths[i]
           w == WalkPath(h, actual, Split(path), 1)
           m1 == IF w.st = "broke" THEN Append(missing, path) ELSE missing
           m2 == IF IsNullish(w.cur) /\ ~Includes(m1, path) THEN Append(m1, path) ELSE m1
       IN IF w.st = "throw" THEN [threw |-> TRUE, missing |-> missing]
          ELSE ValidateLoop(h, actual, requiredPaths, i + 1, m2)

validateRequiredFields(h, bld) ==
  ValidateLoop(h, bld.actual, getRequiredTemplate(bld), 1, <<>>)

\* `Missing required fields: ${missing.join(", ")}. Please set these fields before calling build.`
MissingMessage(missing) ==
  <<"Missing required fields: ">> \o Join(missing)
     \o <<". Please set these fields before calling build.">>

(***************************************************************************)
(* Finalize operations.                                                    *)
(***************************************************************************)
CheckedOps == {"build", "buildWithoutCompileTimeValidation", "buildSafe"}
UncheckedOps == {"buildWithoutRuntimeValidation", "buildUnsafe", "buildPartial"}
RecordOps == CheckedOps \cup UncheckedOps
ClassOps == {"build", "buildWithoutCompileTimeValidation", "buildUnsafe", "buildPartial"}
\* the CeriosBuilder of cerios-builder.ts declares build, buildSafe, buildPartial
OrderRequestOps == {"build", "buildSafe", "buildPartial"}

\* the finalize methods the class of a builder has
OpsOf(cls) ==
  CASE cls \in ClassClasses -> ClassOps
    [] cls = "OrderRequestBuilder" -> OrderRequestOps
    [] OTHER -> RecordOps

\* buildChecked with the bug of a walk that writes what it reads: a key that
\* is not in the partial instance is left there with the value undefined
buildCheckedTouching(h, bs, b, op) ==
  LET r == validateRequiredFields(h, bs[b])
      old == h[bs[b].actual.v].props
      touched == [h EXCEPT ![bs[b].actual.v].props =
                    [k \in Keys |-> IF old[k].t = "absent" THEN Undef ELSE old[k]]]
  IN IF r.threw
     THEN [h |-> h, bs |-> bs, out |-> Out(op, b, "typeerror", 0, Undef, <<>>)]
     ELSE IF Len(r.missing) > 0
     THEN [h |-> touched, bs |-> bs,
           out |-> Out(op, b, "error", 0, Undef, MissingMessage(r.missing))]
     ELSE [h |-> touched, bs |-> bs, out |-> Out(op, b, "value", 0, bs[b].actual, <<>>)]

\* buildChecked with the bug of forgetting the required fields it reported
buildCheckedForgetting(h, bs, b, op) ==
  LET r == validateRequiredFields(h, bs[b])
  IN IF r.threw
     THEN [h |-> h, bs |-> bs, out |-> Out(op, b, "typeerror", 0, Undef, <<>>)]
     ELSE IF Len(r.missing) > 0
     THEN [h |-> h, bs |-> [bs EXCEPT ![b].req = <<>>],
           out |-> Out(op, b, "error", 0, Undef, MissingMessage(r.missing))]
     ELSE [h |-> h, bs |-> bs, out |-> Out(op, b, "value", 0, bs[b].actual, <<>>)]

\* CeriosBuilder: build, buildWithoutCompileTimeValidation and buildSafe
\* validate and then return this._actual
buildChecked(h, bs, b, op) ==
  LET r == validateRequiredFields(h, bs[b])
  IN IF r.threw
     THEN [h |-> h, bs |-> bs, out |-> Out(op, b, "typeerror", 0, Undef, <<>>)]
     ELSE IF Len(r.missing) > 0
     THEN [h |-> h, bs |-> bs,
           out |-> Out(op, b, "error", 0, Undef, MissingMessage(r.missing))]
     ELSE [h |-> h, bs |-> bs, out |-> Out(op, b, "value", 0, bs[b].actual, <<>>)]

\* buildUnchecked with the bug of validating first
buildUncheckedValidating(h, bs, b, op) == buildChecked(h, bs, b, op)

\* CeriosBuilder: buildWithoutRuntimeValidation, buildUnsafe and buildPartial
\* return this._actual; so does build() of the CeriosBuilder of cerios-builder.ts
buildUnchecked(h, bs, b, op) ==
  [h |-> h, bs |-> bs, out |-> Out(op, b, "value", 0, bs[b].actual, <<>>)]

\* classBuild with the bug of never assigning after the constructor
classBuildNoAssign(h, bs, b, op) ==
  LET data == h[bs[b].actual.v].props
      constructed == CASE bs[b].cls = "PersonBuilder" -> data
                       [] bs[b].cls = "CounterBuilder" -> [NoProps EXCEPT !["a"] = Num(0)]
                       [] OTHER -> NoProps
      h2 == Append(h, ObjOf(constructed))
  IN [h |-> h2, bs |-> bs, out |-> Out(op, b, "value", 0, Ref(Len(h2)), <<>>)]

\* CeriosClassBuilder: new ctor(this._actual), then Object.assign(instance,
\* this._actual) when some key with a defined value reads undefined on it
classBuild(h, bs, b, op) ==
  LET data == h[bs[b].actual.v].props
      constructed == CASE bs[b].cls = "PersonBuilder" -> data
                       [] bs[b].cls = "CounterBuilder" -> [NoProps EXCEPT !["a"] = Num(0)]
                       [] OTHER -> NoProps
      Read(props, k) == IF props[k].t = "absent" THEN Undef ELSE props[k]
      needsAssign == \E k \in Keys :
                        /\ data[k].t # "absent"
                        /\ Read(constructed, k) = Undef
                        /\ data[k] # Undef
      instance == IF needsAssign THEN Spread(constructed, data) ELSE constructed
      h2 == Append(h, ObjOf(instance))
  IN [h |-> h2, bs |-> bs, out |-> Out(op, b, "value", 0, Ref(Len(h2)), <<>>)]

\* CeriosClassBuilder.buildPartial: {...this._actual}
classBuildPartial(h, bs, b, op) ==
  LET h2 == Append(h, ObjOf(h[bs[b].actual.v].props))
  IN [h |-> h2, bs |-> bs, out |-> Out(op, b, "value", 0, Ref(Len(h2)), <<>>)]

\* Object.freeze / deepFreeze / Object.seal / deepSeal, by finalize method
LockOps == {"buildFrozen", "buildDeepFrozen", "buildSealed", "buildDeepSealed"}

ApplyLock(h, o, op) ==
  CASE op = "buildFrozen" -> Freeze(h, o)
    [] op = "buildDeepFrozen" -> deepFreeze(h, o)
    [] op = "buildSealed" -> Seal(h, o)
    [] op = "buildDeepSealed" -> deepSeal(h, o)

\* CeriosBuilder: buildFrozen, buildDeepFrozen, buildSealed, buildDeepSealed
\* validate, then lock this._actual and return it
buildLocked(h, bs, b, op) ==
  LET r == buildChecked(h, bs, b, op)
  IN IF r.out.kind = "value"
     THEN [r EXCEPT !.h = ApplyLock(r.h, r.out.val.v, op)]
     ELSE r

\* CeriosClassBuilder: buildFrozen, buildDeepFrozen, buildSealed,
\* buildDeepSealed make the instance as build does, then lock it
classBuildLocked(h, bs, b, op) ==
  LET r == classBuild(h, bs, b, op)
  IN [r EXCEPT !.h = ApplyLock(r.h, r.out.val.v, op)]

finalize(h, bs, b, op) ==
  IF bs[b].cls \in ClassClasses
  THEN IF op = "buildPartial" THEN classBuildPartial(h, bs, b, op)
       ELSE IF op \in LockOps THEN classBuildLocked(h, bs, b, op)
       ELSE classBuild(h, bs, b, op)
  ELSE IF op \in LockOps THEN buildLocked(h, bs, b, op)
  ELSE IF bs[b].cls = "OrderRequestBuilder" /\ op = "build"
  THEN buildUnchecked(h, bs, b, op)
  ELSE IF op \in CheckedOps THEN buildChecked(h, bs, b, op)
       ELSE buildUnchecked(h, bs, b, op)

(***************************************************************************)
(* Custom validators.  A validator is a function of the partial instance   *)
(* that returns true, false or a message.  The validators here are         *)
(*   vA:     obj => obj.a === 1 || "A"                                     *)
(*   vTrue:  obj => true                                                   *)
(*   vC:     obj => obj.b === null || "C"                                  *)
(*   vFalse: obj => obj.a !== undefined                                    *)
(***************************************************************************)
ValidatorIds == {"vA", "vTrue", "vC", "vFalse"}

\* The result of validator(this._actual): true is [ok |-> TRUE], false is
\* [ok |-> FALSE] with no text, a message is [ok |-> FALSE] with the text
Passed == [ok |-> TRUE, text |-> ""]
Failed(text) == [ok |-> FALSE, text |-> text]

Validate(id, h, actual) ==
  CASE id = "vA" -> IF Get(h, actual, "a") = Num(1) THEN Passed ELSE Failed("A")
    [] id = "vTrue" -> Passed
    [] id = "vC" -> IF Get(h, actual, "b") = Null THEN Passed ELSE Failed("C")
    [] id = "vFalse" -> IF Get(h, actual, "a") # Undef THEN Passed ELSE Failed("")

\* The message a failed validator contributes
FailureText(result) ==
  IF result.text = "" THEN <<"Validation failed">> ELSE <<result.text>>

\* runValidators with the bug of stopping at the first failure
RECURSIVE runValidatorsFirstOnly(_, _, _, _)
runValidatorsFirstOnly(h, actual, vs, i) ==
  IF i > Len(vs) THEN <<>>
  ELSE LET result == Validate(vs[i], h, actual)
       IN IF result.ok THEN runValidatorsFirstOnly(h, actual, vs, i + 1)
          ELSE <<FailureText(result)>>

\* Every validator is run, in registration order; the messages of those that
\* fail are collected
RECURSIVE runValidators(_, _, _, _)
runValidators(h, actual, vs, i) ==
  IF i > Len(vs) THEN <<>>
  ELSE LET result == Validate(vs[i], h, actual)
       IN (IF result.ok THEN <<>> ELSE <<FailureText(result)>>)
            \o runValidators(h, actual, vs, i + 1)

\* failures.join("; ")
RECURSIVE JoinMessages(_)
JoinMessages(list) ==
  IF list = <<>> THEN <<>>
  ELSE IF Len(list) = 1 THEN list[1]
  ELSE list[1] \o <<"; ">> \o JoinMessages(Tail(list))

\* The message of the error raised for the collected failures: on a
\* CeriosBuilder a lone failure of a validator that returned false reads
\* "Validation failed"
ValidationMessage(cls, failures) ==
  IF cls \in RecordClasses /\ failures = << <<"Validation failed">> >>
  THEN <<"Validation failed">>
  ELSE <<"Validation failed: ">> \o JoinMessages(failures)

\* The finalize methods that run the validators
ValidatingOps == {"build", "buildWithoutCompileTimeValidation"} \cup LockOps

\* finalizeValidated with the bug of running the validators in every
\* finalize method
finalizeValidatedEveryOp(h, bs, vs, b, op) ==
  LET failures == runValidators(h, bs[b].actual, vs[b], 1)
  IN IF vs[b] # <<>> /\ failures # <<>>
     THEN [h |-> h, bs |-> bs,
           out |-> Out(op, b, "invalid", 0, Undef, ValidationMessage(bs[b].cls, failures))]
     ELSE finalize(h, bs, b, op)

\* A finalize method on a builder with the validators vs[b]: a method that
\* runs validators raises when one fails, once the required fields pass,
\* and produces no value
finalizeValidated(h, bs, vs, b, op) ==
  LET failures == runValidators(h, bs[b].actual, vs[b], 1)
      required == validateRequiredFields(h, bs[b])
      passes == \/ bs[b].cls \in ClassClasses
                \/ ~required.threw /\ required.missing = <<>>
  IN IF op \in ValidatingOps /\ vs[b] # <<>> /\ failures # <<>> /\ passes
     THEN [h |-> h, bs |-> bs,
           out |-> Out(op, b, "invalid", 0, Undef, ValidationMessage(bs[b].cls, failures))]
     ELSE finalize(h, bs, b, op)

\* addValidator(validator): a new builder around a copy of the partial
\* instance; the action adds the validator to those it carries
addValidator(h, bs, b, id) ==
  LET h2 == Append(h, ObjOf(h[bs[b].actual.v].props))
  IN [h |-> h2,
      bs |-> Append(bs, Derive(bs[b], Ref(Len(h2)))),
      out |-> Out("addValidator", b, "builder", Len(bs) + 1, Undef, <<>>)]

\* clone(): a new builder around a deep copy of the partial instance, with
\* the required fields and the validators of the receiver
clone(h, bs, b) ==
  LET c == deepClone(h, bs[b].actual)
  IN [h |-> c.h,
      bs |-> Append(bs, Derive(bs[b], c.v)),
      out |-> Out("clone", b, "builder", Len(bs) + 1, Undef, <<>>)]

\* static from(instance): a new builder of the class around a deep copy of
\* the instance
from(h, bs, cls, v) ==
  LET c == deepClone(h, v)
  IN [h |-> c.h,
      bs |-> Append(bs, IF cls \in ClassClasses
                        THEN NewClassBuilder(cls, c.v, <<FALSE>>)
                        ELSE NewBuilder(cls, c.v, <<FALSE>>)),
      out |-> Out("from", 0, "builder", Len(bs) + 1, Undef, <<>>)]

(***************************************************************************)
(* The state machine.  The caller constructs one builder and then calls    *)
(* operations on any builder it holds, in any order.                       *)
(***************************************************************************)
\* The constructor calls of the caller: class, data literal, requiredFields
\*   new PlainBuilder({})
\*   new PlainBuilder({a: {b: 1}}, ["b"])
\*   new UserBuilder({}, UserBuilder.requiredTemplate)
\*   new UserBuilder({a: {b: 1}})
\*   new OrderRequestBuilder({})
\*   new PersonBuilder(Person, {}, undefined, ["b"])
\*   new AddressBuilder(Address, {a: {b: 1}})
\*   new CounterBuilder(Counter, {})
Creations ==
  {<<"PlainBuilder", "empty", <<FALSE>> >>,
   <<"PlainBuilder", "nested", <<TRUE, <<PathB>> >> >>,
   <<"UserBuilder", "empty", <<TRUE, requiredTemplate("UserBuilder")>> >>,
   <<"UserBuilder", "nested", <<FALSE>> >>,
   <<"OrderRequestBuilder", "empty", <<FALSE>> >>,
   <<"PersonBuilder", "empty", <<TRUE, <<PathB>> >> >>,
   <<"AddressBuilder", "nested", <<FALSE>> >>,
   <<"CounterBuilder", "empty", <<FALSE>> >>}

\* The arguments of the calls
PropertyInputs == {<<"a", "n1">>, <<"a", "objB1">>, <<"b", "undef">>, <<"b", "null">>}
PropsInputs == {[NoProps EXCEPT !["a"] = Num(1), !["b"] = Null]}
NestedInputs == {<<PathAB, "n1">>, <<PathAB, "null">>}
ArrayInputs == {<<"a", "n1">>, <<"b", "n1">>}
ReqInputs == {<<PathB>>, <<PathAB, PathA, PathAB>>}

\* the object literal the first builder is constructed with: {} or {a: {b: 1}}
InitHeap(data) ==
  IF data = "empty" THEN <<ObjOf(NoProps)>>
  ELSE <<ObjOf([NoProps EXCEPT !["b"] = Num(1)]),
         ObjOf([NoProps EXCEPT !["a"] = Ref(1)])>>

Init ==
  \E c \in Creations :
    /\ heap = InitHeap(c[2])
    /\ builders = <<IF c[1] \in ClassClasses
                    THEN NewClassBuilder(c[1], Ref(Len(InitHeap(c[2]))), c[3])
                    ELSE NewBuilder(c[1], Ref(Len(InitHeap(c[2]))), c[3])>>
    /\ registered = <<IF c[3][1] THEN c[3][2] ELSE <<>> >>
    /\ lineage = <<[parent |-> 0, op |-> "constructor", in |-> c]>>
    /\ ret = Out("constructor", 0, "builder", 1, Undef, <<>>)
    /\ validators = << <<>> >>
    /\ writes = 0

Receivers == 1..Len(builders)

\* The instance a finalize of the class-instance family returned is the
\* caller's alone (nothing in the heap refers to it): the caller lets go of
\* it before its next call and its slot is reclaimed.
Live ==
  IF /\ ret.kind \in {"value", "mutated"}
     /\ builders[ret.recv].cls \in ClassClasses
  THEN SubSeq(heap, 1, Len(heap) - 1)
  ELSE heap

\* The state after a call with arguments in whose result is r
Step(r, in) ==
  /\ Len(r.h) <= MaxHeap
  /\ heap' = r.h
  /\ builders' = r.bs
  /\ ret' = r.out
  /\ registered' = IF Len(r.bs) > Len(builders)
                   THEN Append(registered, registered[r.out.recv])
                   ELSE registered
  /\ lineage' = IF Len(r.bs) > Len(builders)
                THEN Append(lineage, [parent |-> r.out.recv, op |-> r.out.op, in |-> in])
                ELSE lineage
  /\ validators' = IF Len(r.bs) > Len(builders)
                   THEN Append(validators, validators[r.out.recv])
                   ELSE validators
  /\ UNCHANGED writes

SetPropertyUpTo(n) ==
  /\ Len(builders) < n
  /\ \E b \in Receivers, in \in PropertyInputs :
    Step(setProperty(Live, builders, b, in[1], in[2]), in)

SetProperty == SetPropertyUpTo(MaxBuilders)

SetProperties ==
  /\ Len(builders) < MaxBuilders
  /\ \E b \in Receivers, props \in PropsInputs :
    Step(setProperties(Live, builders, b, props), <<props>>)

SetNestedPropertyUpTo(n) ==
  /\ Len(builders) < n
  /\ \E b \in Receivers, in \in NestedInputs :
    /\ builders[b].cls \in RecordClasses
    /\ Step(setNestedProperty(Live, builders, b, in[1], in[2]), in)

SetNestedProperty == SetNestedPropertyUpTo(MaxBuilders)

AddToArrayProperty ==
  /\ Len(builders) < MaxBuilders
  /\ \E b \in Receivers, in \in ArrayInputs :
    Step(addToArrayProperty(Live, builders, b, in[1], in[2]), in)

SetRequiredFields ==
  \E b \in Receivers, fields \in ReqInputs :
    /\ builders[b].cls \in RecordClasses
    /\ LET r == setRequiredFields(Live, builders, b, fields)
       IN /\ heap' = r.h
          /\ builders' = r.bs
          /\ ret' = r.out
          /\ registered' = [registered EXCEPT ![b] = fields]
          /\ UNCHANGED <<lineage, validators, writes>>

Finalize ==
  \E b \in Receivers, op \in RecordOps \cup ClassOps :
    /\ op \in OpsOf(builders[b].cls)
    /\ Step(finalizeValidated(Live, builders, validators, b, op), <<op>>)

\* The buildFrozen, buildDeepFrozen, buildSealed and buildDeepSealed calls; the
\* CeriosBuilder of cerios-builder.ts declares none of them
FinalizeLocked ==
  \E b \in Receivers, op \in LockOps :
    /\ builders[b].cls # "OrderRequestBuilder"
    /\ Step(finalizeValidated(Live, builders, validators, b, op), <<op>>)

\* addValidator on any builder the caller holds
AddValidator ==
  /\ Len(builders) < MaxBuilders
  /\ \E b \in Receivers, id \in ValidatorIds :
       /\ builders[b].cls # "OrderRequestBuilder"
       /\ Len(validators[b]) < MaxValidators
       /\ LET r == addValidator(Live, builders, b, id)
          IN /\ Len(r.h) <= MaxHeap
             /\ heap' = r.h
             /\ builders' = r.bs
             /\ ret' = r.out
             /\ registered' = Append(registered, registered[b])
             /\ lineage' = Append(lineage, [parent |-> b, op |-> "addValidator", in |-> <<id>>])
             /\ validators' = Append(validators, Append(validators[b], id))
             /\ UNCHANGED writes

Clone ==
  /\ Len(builders) < MaxBuilders
  /\ \E b \in Receivers :
       /\ builders[b].cls # "OrderRequestBuilder"
       /\ Step(clone(Live, builders, b), <<>>)

\* The finished values a caller hands to from: {b: 1}, {a: 1}, {a: {b: 1}}
\* and {a: [1], b: null}
FromInputs == {"objB1", "objA1", "nested", "withArr"}

AllocInstance(h, lit) ==
  CASE lit = "objB1" -> Alloc(h, "objB1")
    [] lit = "objA1" ->
         [h |-> Append(h, ObjOf([NoProps EXCEPT !["a"] = Num(1)])), v |-> Ref(Len(h) + 1)]
    [] lit = "nested" ->
         LET in == Alloc(h, "objB1")
         IN [h |-> Append(in.h, ObjOf([NoProps EXCEPT !["a"] = in.v])),
             v |-> Ref(Len(in.h) + 1)]
    [] lit = "withArr" ->
         LET in == Alloc(h, "arr1")
         IN [h |-> Append(in.h, ObjOf([NoProps EXCEPT !["a"] = in.v, !["b"] = Null])),
             v |-> Ref(Len(in.h) + 1)]

\* The classes whose static from the caller uses
FromClasses == {"PlainBuilder", "PersonBuilder", "AddressBuilder", "CounterBuilder"}

\* The values of the shape a class builds: an instance of Counter always has
\* the field its initialiser sets
FromShapes(cls) ==
  IF cls = "CounterBuilder" THEN FromInputs \ {"objB1"} ELSE FromInputs

\* SomeBuilder.from(v), for a value v the caller made
From ==
  /\ Len(builders) < MaxChain
  /\ \E cls \in FromClasses : \E lit \in FromShapes(cls) :
       LET a == AllocInstance(Live, lit)
           r == from(a.h, builders, cls, a.v)
       IN /\ Len(r.h) <= MaxHeap
          /\ heap' = r.h
          /\ builders' = r.bs
          /\ ret' = r.out
          /\ registered' = Append(registered, <<>>)
          /\ lineage' = Append(lineage, [parent |-> 0, op |-> "from", in |-> <<cls, a.v>>])
          /\ validators' = Append(validators, <<>>)
          /\ UNCHANGED writes

\* Paths of two and three segments, to fields with siblings
DeepNestedInputs ==
  {<<PathAA, "n1">>, <<PathAB, "n1">>, <<PathAB, "null">>, <<PathABA, "n1">>}

\* Whether the value v holds an array
IsArray(h, v) == v.t = "ref" /\ h[v.v].kind = "arr"

\* setNestedProperty with a path Path<T> admits: Path<T> does not descend
\* into a field whose type is an array
SetNestedPropertyDeep ==
  /\ Len(builders) < MaxBuilders
  /\ \E b \in Receivers, in \in DeepNestedInputs :
       /\ builders[b].cls \in RecordClasses
       /\ ~IsArray(Live, Get(Live, builders[b].actual, Split(in[1])[1]))
       /\ Step(setNestedProperty(Live, builders, b, in[1], in[2]), in)

\* setProperties with one key, with both, and with the value undefined
SomePropsInputs ==
  {[NoProps EXCEPT !["a"] = Num(1), !["b"] = Null],
   [NoProps EXCEPT !["b"] = Num(2)],
   [NoProps EXCEPT !["a"] = Undef]}

SetSomeProperties ==
  /\ Len(builders) < MaxBuilders
  /\ \E b \in Receivers, props \in SomePropsInputs :
    Step(setProperties(Live, builders, b, props), <<props>>)

\* addToArrayProperty with two different values
ArrayValueInputs == {<<"a", "n1">>, <<"a", "n2">>, <<"b", "n1">>, <<"b", "n2">>}

AddToArrayPropertyValues ==
  /\ Len(builders) < MaxBuilders
  /\ \E b \in Receivers, in \in ArrayValueInputs :
    Step(addToArrayProperty(Live, builders, b, in[1], in[2]), in)

\* Whether the write result.k = 2 (push(2) on an array) is permitted: adding
\* a property needs an extensible object, changing one an object not frozen
CanSet(h, o, key) ==
  IF h[o].kind = "arr" \/ h[o].props[key].t = "absent"
  THEN h[o].lock = "open"
  ELSE h[o].lock # "frozen"

\* The caller writes into the value it was handed: result.k = 2 on an object
\* reachable from it, or push(2) on an array reachable from it.
Mutated(h, o, key) ==
  IF h[o].kind = "arr"
  THEN [h EXCEPT ![o].elems = Append(@, Num(2))]
  ELSE [h EXCEPT ![o].props[key] = Num(2)]

MutateResult ==
  /\ ret.kind = "value"
  /\ writes < MaxWrites
  /\ writes' = writes + 1
  /\ \E o \in Reach(heap, ret.val), key \in Keys :
       /\ heap' = IF CanSet(heap, o, key) THEN Mutated(heap, o, key) ELSE heap
       /\ ret' = [ret EXCEPT !.kind = IF CanSet(heap, o, key) THEN "mutated" ELSE "typeerror"]
       /\ UNCHANGED <<builders, registered, lineage, validators>>

\* The four transitions
Transition ==
  \/ SetProperty
  \/ SetProperties
  \/ SetNestedProperty
  \/ AddToArrayProperty

\* The operations of the library
Next ==
  \/ Transition
  \/ SetRequiredFields
  \/ AddValidator
  \/ Clone
  \/ From
  \/ Finalize
  \/ FinalizeLocked
  \/ MutateResult

Spec == Init /\ [][Next]_vars

\* A caller that registers no required fields after construction
NextT ==
  \/ Transition
  \/ Finalize

SpecT == Init /\ [][NextT]_vars

\* A caller that also writes into the values finalize returned to it
NextM ==
  \/ Transition
  \/ Finalize
  \/ MutateResult

SpecM == Init /\ [][NextM]_vars

\* A caller that sets fields one at a time and registers required fields, on
\* chains of at most MaxChain builders
SetPropertyInChain == SetPropertyUpTo(MaxChain)

SetNestedPropertyInChain == SetNestedPropertyUpTo(MaxChain)

NextV ==
  \/ SetPropertyInChain
  \/ SetNestedPropertyInChain
  \/ SetRequiredFields
  \/ Finalize

SpecV == Init /\ [][NextV]_vars

\* A caller that sets fields and finalizes with and without freeze or seal,
\* on chains of at most MaxChain builders
NextF ==
  \/ SetPropertyInChain
  \/ SetNestedPropertyInChain
  \/ Finalize
  \/ FinalizeLocked

SpecF == Init /\ [][NextF]_vars

\* A caller that constructs its first builder with validators, as a subclass
\* constructor(data, requiredFields, validators) allows:
\*   new PlainBuilder({})
\*   new PlainBuilder({}, undefined, [vA, vTrue, vC])
\*   new UserBuilder({a: {b: 1}}, undefined, [vFalse, vA])
\*   new PersonBuilder(Person, {}, [vA, vTrue, vC])
CreationsC ==
  {<<"PlainBuilder", "empty", <<FALSE>>, <<>> >>,
   <<"PlainBuilder", "empty", <<FALSE>>, <<"vA", "vTrue", "vC">> >>,
   <<"UserBuilder", "nested", <<FALSE>>, <<"vFalse", "vA">> >>,
   <<"PersonBuilder", "empty", <<FALSE>>, <<"vA", "vTrue", "vC">> >>}

InitC ==
  \E c \in CreationsC :
    /\ heap = InitHeap(c[2])
    /\ builders = <<IF c[1] \in ClassClasses
                    THEN NewClassBuilder(c[1], Ref(Len(InitHeap(c[2]))), c[3])
                    ELSE NewBuilder(c[1], Ref(Len(InitHeap(c[2]))), c[3])>>
    /\ registered = << <<>> >>
    /\ lineage = <<[parent |-> 0, op |-> "constructor", in |-> c]>>
    /\ ret = Out("constructor", 0, "builder", 1, Undef, <<>>)
    /\ validators = <<c[4]>>
    /\ writes = 0

\* which then sets fields, adds validators, clones and finalizes
NextC ==
  \/ SetProperty
  \/ AddValidator
  \/ Clone
  \/ Finalize

SpecC == InitC /\ [][NextC]_vars

\* A caller that starts from SomeBuilder.from(v) for a value v it made, sets
\* fields, finalizes and writes into the values finalize returned
InitR ==
  \E cls \in FromClasses : \E lit \in FromShapes(cls) :
    LET a == AllocInstance(<<>>, lit)
        r == from(a.h, <<>>, cls, a.v)
    IN /\ heap = r.h
       /\ builders = r.bs
       /\ ret = r.out
       /\ registered = << <<>> >>
       /\ lineage = <<[parent |-> 0, op |-> "from", in |-> <<cls, a.v>>]>>
       /\ validators = << <<>> >>
       /\ writes = 0

NextR ==
  \/ SetPropertyInChain
  \/ SetNestedPropertyInChain
  \/ AddToArrayProperty
  \/ Finalize
  \/ MutateResult

SpecR == InitR /\ [][NextR]_vars

\* A caller that sets fields, adds to arrays and sets nested fields of two
\* and three segments
NextN ==
  \/ SetProperty
  \/ AddToArrayProperty
  \/ SetNestedPropertyDeep

SpecN == Init /\ [][NextN]_vars

\* A caller that sets fields and adds different values to arrays
NextA ==
  \/ SetProperty
  \/ AddToArrayPropertyValues

SpecA == Init /\ [][NextA]_vars

\* A caller that sets fields one at a time and several at once
NextP ==
  \/ SetProperty
  \/ SetSomeProperties

SpecP == Init /\ [][NextP]_vars

\* A caller of the four transitions and of finalize whose first builder is
\*   new PlainBuilder({a: {b: 1}}, ["b"])
\*   new PersonBuilder(Person, {}, undefined, ["b"])
\*   new AddressBuilder(Address, {a: {b: 1}})
\*   new CounterBuilder(Counter, {})
CreationsK ==
  {c \in Creations :
     \/ c[1] = "PlainBuilder" /\ c[2] = "nested"
     \/ c[1] \in ClassClasses}

InitK == Init /\ lineage[1].in \in CreationsK

SpecK == InitK /\ [][NextT]_vars

(***************************************************************************)
(* Properties.                                                             *)
(***************************************************************************)
(***************************************************************************)
(* The compile-time type-state.  A transition returns                      *)
(* this & CeriosBrand<Pick<T, K>>: the receiver's type intersected with a  *)
(* brand for the keys it sets.  The brand of a builder is the set of those *)
(* keys over the calls that made it; a builder fresh from its constructor  *)
(* carries none.  The target shape T of the builders here has the fields   *)
(* a and b?, so that b may be set to undefined.                            *)
(***************************************************************************)
\* RootKey<P>: the first segment of a path
RootKey(path) == Split(path)[1]

\* The K of the Pick<T, K> a transition adds
BrandKeys(op, in) ==
  CASE op \in {"setProperty", "addToArrayProperty"} -> {in[1]}
    [] op = "setProperties" -> {k \in Keys : in[1][k].t # "absent"}
    [] op = "setNestedProperty" -> {RootKey(in[1])}
    [] OTHER -> {}

RECURSIVE Brand(_)
Brand(b) ==
  IF lineage[b].parent = 0 THEN {}
  ELSE Brand(lineage[b].parent) \cup BrandKeys(lineage[b].op, lineage[b].in)

\* The keys of T that are not optional
NonOptionalKeys == {"a"}

\* The finalize methods declared with this: this & CeriosBrand<T>
CompileTimeCheckedOps ==
  {"build", "buildWithoutRuntimeValidation",
   "buildFrozen", "buildDeepFrozen", "buildSealed", "buildDeepSealed"}

TransitionOps == {"setProperty", "setProperties", "setNestedProperty", "addToArrayProperty"}
FinalizeOps == RecordOps \cup ClassOps

Created(c) ==
  [h |-> InitHeap(c[2]),
   bs |-> <<IF c[1] \in ClassClasses
            THEN NewClassBuilder(c[1], Ref(Len(InitHeap(c[2]))), c[3])
            ELSE NewBuilder(c[1], Ref(Len(InitHeap(c[2]))), c[3])>>]

Apply(st, op, in) ==
  LET b == Len(st.bs) IN
  CASE op = "setProperty" -> setProperty(st.h, st.bs, b, in[1], in[2])
    [] op = "setProperties" -> setProperties(st.h, st.bs, b, in[1])
    [] op = "setNestedProperty" -> setNestedProperty(st.h, st.bs, b, in[1], in[2])
    [] op = "addToArrayProperty" -> addToArrayProperty(st.h, st.bs, b, in[1], in[2])

RECURSIVE Alone(_)
Alone(b) ==
  IF lineage[b].parent = 0 THEN Created(lineage[b].in)
  ELSE Apply(Alone(lineage[b].parent), lineage[b].op, lineage[b].in)

\* C2: whatever other calls were made in between on other builders derived
\* from the same base, every builder holds the content its own chain of
\* calls gives when applied alone (the base: the content it was created
\* with), and a finalize call on it has the outcome (value content, or
\* error) that the same call has after the chain applied alone.
C2_ChainsIndependent ==
  /\ \A b \in 1..Len(builders) :
       LET al == Alone(b)
       IN Content(heap, builders[b].actual) = Content(al.h, al.bs[Len(al.bs)].actual)
  /\ ret.op \in FinalizeOps =>
       LET al == Alone(ret.recv)
           f == finalize(al.h, al.bs, Len(al.bs), ret.op)
       IN /\ f.out.kind = ret.kind
          /\ f.out.msg = ret.msg
          /\ Content(f.h, f.out.val) = Content(heap, ret.val)

\* C2 witness: two builders were derived from the base, which holds a nested
\* object, by calls that set the same key (one of them by path), and the
\* base was finalized after both
C2_Witness ==
  /\ Len(builders) = 3
  /\ lineage[2].parent = 1
  /\ lineage[3].parent = 1
  /\ lineage[2].op = "setNestedProperty"
  /\ lineage[3].op = "setProperty"
  /\ lineage[3].in[1] = "a"
  /\ Cardinality(Reach(heap, builders[1].actual)) > 1
  /\ ret.op = "buildUnsafe"
  /\ ret.recv = 1
  /\ ret.kind = "value"

(***************************************************************************)
(* What the documentation means by a missing address, stated on the        *)
(* content of the partial instance and not on the walk of the code: an     *)
(* address is present when its full path exists and ends in a value that   *)
(* is neither null nor undefined.                                          *)
(***************************************************************************)
Present(h, actual, path) ==
  \E e \in Content(h, actual) : e[1] = Split(path) /\ e[2] \notin {"undef", "null"}

Range(list) == {list[i] : i \in 1..Len(list)}

NoDuplicates(list) == \A i, j \in 1..Len(list) : list[i] = list[j] => i = j

Occurrences(list, x) == Cardinality({i \in 1..Len(list) : list[i] = x})

\* The addresses a builder must enforce, in the documented order: the static
\* template in declaration order, then the registered ones in registration order
ManifestOrder(b) == requiredTemplate(builders[b].cls) \o registered[b]

RECURSIVE PickInOrder(_, _, _)
PickInOrder(list, idxs, i) ==
  IF i > Len(list) THEN <<>>
  ELSE IF i \in idxs THEN <<list[i]>> \o PickInOrder(list, idxs, i + 1)
  ELSE PickInOrder(list, idxs, i + 1)

\* The first occurrence of every address of the manifest that is not present
ExpectedMissing(b) ==
  LET order == ManifestOrder(b)
      idxs == {i \in 1..Len(order) :
                 /\ ~Present(heap, builders[b].actual, order[i])
                 /\ \A j \in 1..(i - 1) : order[j] # order[i]}
  IN PickInOrder(order, idxs, 1)

\* The addresses between the ", " separators of a message body
RECURSIVE SplitOnComma(_, _)
SplitOnComma(toks, cur) ==
  IF toks = <<>> THEN <<cur>>
  ELSE IF Head(toks) = ", " THEN <<cur>> \o SplitOnComma(Tail(toks), <<>>)
  ELSE SplitOnComma(Tail(toks), Append(cur, Head(toks)))

Addresses(msg) ==
  IF Len(msg) <= 2 THEN <<>> ELSE SplitOnComma(SubSeq(msg, 2, Len(msg) - 1), <<>>)

RECURSIVE CommaSeparated(_)
CommaSeparated(list) ==
  IF list = <<>> THEN <<>>
  ELSE IF Len(list) = 1 THEN list[1]
  ELSE list[1] \o <<", ">> \o CommaSeparated(Tail(list))

OnRecord(b) == builders[b].cls \in RecordClasses

\* The finalize operations that check the required fields at run time in
\* every version of CeriosBuilder under src
RuntimeCheckedOps == {"buildWithoutCompileTimeValidation", "buildSafe"}

\* C3: a write of the caller into a value a finalize operation returned
\* (at its top level or in an object or array reachable from it) changes the
\* content of no builder's partial instance.
C3_FinishedValueIndependent ==
  [][ writes' > writes =>
        \A b \in 1..Len(builders) :
          Content(heap', builders'[b].actual) = Content(heap, builders[b].actual)
    ]_vars

\* C4: when a runtime-checked finalize of a CeriosBuilder computes the missing
\* list, the computation completes, and for every address of the effective
\* manifest: the address is not in the list if it is present, it is in the
\* list exactly once if it is not; the list holds no other address.
C4_MissingListExact ==
  (ret.op \in RuntimeCheckedOps /\ OnRecord(ret.recv)) =>
    LET r == validateRequiredFields(heap, builders[ret.recv])
        manifest == Range(getRequiredTemplate(builders[ret.recv]))
    IN /\ ~r.threw
       /\ Range(r.missing) \subseteq manifest
       /\ \A p \in manifest :
            Occurrences(r.missing, p) =
              (IF Present(heap, builders[ret.recv].actual, p) THEN 0 ELSE 1)

\* C4, as far as the code goes: the same, whenever the computation completes
\* (it does not when an intermediate segment holds a number)
C4_MissingListExactUnlessThrown ==
  \A b \in 1..Len(builders) :
    OnRecord(b) =>
      LET r == validateRequiredFields(heap, builders[b])
          manifest == Range(getRequiredTemplate(builders[b]))
      IN ~r.threw =>
           /\ Range(r.missing) \subseteq manifest
           /\ \A p \in manifest :
                Occurrences(r.missing, p) =
                  (IF Present(heap, builders[b].actual, p) THEN 0 ELSE 1)

\* C4 case: a checked finalize has run on a builder whose manifest names a
\* nested address under a key that holds a number
C4_ThrowReached ==
  /\ ret.op \in RuntimeCheckedOps
  /\ ret.kind = "typeerror"

\* C5: buildWithoutCompileTimeValidation and buildSafe of a CeriosBuilder
\* return a value iff no address of the effective manifest is missing; when
\* some address is missing they raise the error that names every missing
\* address, and return no value.
C5_CheckedFinalizeIffNoneMissing ==
  (ret.op \in RuntimeCheckedOps /\ OnRecord(ret.recv)) =>
    LET missing == {p \in Range(ManifestOrder(ret.recv)) :
                      ~Present(heap, builders[ret.recv].actual, p)}
    IN /\ ret.kind = "value" <=> missing = {}
       /\ missing # {} =>
            /\ ret.kind = "error"
            /\ ret.val = Undef
            /\ missing \subseteq Range(Addresses(ret.msg))

\* C5, as far as the code goes: the same with a TypeError as a third outcome
C5_CheckedFinalizeUnlessThrown ==
  (ret.op \in RuntimeCheckedOps
     /\ OnRecord(ret.recv) /\ ret.kind # "typeerror") =>
    LET missing == {p \in Range(ManifestOrder(ret.recv)) :
                      ~Present(heap, builders[ret.recv].actual, p)}
    IN /\ ret.kind = "value" <=> missing = {}
       /\ missing # {} =>
            /\ ret.kind = "error"
            /\ ret.val = Undef
            /\ missing \subseteq Range(Addresses(ret.msg))

\* C6: the error raised for missing required fields reads
\* "Missing required fields: " + the missing addresses joined by ", " +
\* ". Please set these fields before calling build.", the addresses being
\* those of the static template in declaration order followed by the dynamic
\* ones in registration order, each at most once.
C6_MessageInManifestOrder ==
  ret.kind = "error" =>
    ret.msg = <<"Missing required fields: ">>
                \o CommaSeparated(ExpectedMissing(ret.recv))
                \o <<". Please set these fields before calling build.">>

\* C6 witness: an error was raised that lists a static address and then a
\* dynamic one, for a builder whose registered list repeats an address
C6_Witness ==
  /\ ret.kind = "error"
  /\ builders[ret.recv].cls = "UserBuilder"
  /\ Addresses(ret.msg) = <<PathA, PathAB, PathB>>
  /\ lineage[ret.recv].parent # 0

\* C7: the effective manifest of a CeriosBuilder is the union of the static
\* template of its class and of its dynamic set, without duplicates: an
\* address in both is listed once, every address of either is enforced by a
\* runtime-checked finalize, and an error names no address twice.
C7_ManifestIsDedupUnion ==
  /\ \A b \in 1..Len(builders) :
       OnRecord(b) =>
         /\ Range(getRequiredTemplate(builders[b]))
              = Range(requiredTemplate(builders[b].cls)) \cup Range(registered[b])
         /\ NoDuplicates(getRequiredTemplate(builders[b]))
  /\ (ret.op \in RuntimeCheckedOps /\ OnRecord(ret.recv)) =>
       /\ ret.kind = "value" =>
            \A p \in Range(requiredTemplate(builders[ret.recv].cls))
                       \cup Range(registered[ret.recv]) :
              Present(heap, builders[ret.recv].actual, p)
       /\ ret.kind = "error" => NoDuplicates(Addresses(ret.msg))

\* C7 witness: a checked finalize raised the error for a builder that was
\* constructed with the static template of its own class as its dynamic set
C7_Witness ==
  /\ ret.op \in RuntimeCheckedOps
  /\ ret.kind = "error"
  /\ builders[ret.recv].cls = "UserBuilder"
  /\ registered[ret.recv] = requiredTemplate("UserBuilder")
  /\ Len(Addresses(ret.msg)) = 2

C9_SetRequiredFieldsLeavesReceiver ==
  [][ ret'.op = "setRequiredFields" =>
        /\ ret'.b # ret'.recv
        /\ \A b \in 1..Len(builders) :
             /\ getRequiredTemplate(builders'[b]) = getRequiredTemplate(builders[b])
             /\ validateRequiredFields(heap', builders'[b])
                  = validateRequiredFields(heap, builders[b])
    ]_vars

\* C10: each of the four transitions hands the dynamic set of its receiver to
\* the builder it returns, and a runtime-checked finalize of a builder reached
\* through transitions returns a value only if every address registered for
\* the chain is present, for CeriosBuilder and CeriosClassBuilder alike.
C10_DynamicSetCarriedAndEnforced ==
  [][ /\ Len(builders') > Len(builders) =>
           builders'[ret'.b].req = builders[ret'.recv].req
      /\ ( /\ ret'.op \in RuntimeCheckedOps
           /\ ret'.kind = "value"
           /\ lineage'[ret'.recv].parent # 0 ) =>
           \A p \in Range(registered'[ret'.recv]) :
             Present(heap', builders'[ret'.recv].actual, p)
    ]_vars

\* C10, as far as the code goes: the same for the CeriosBuilder family only
C10_CarriedAndEnforcedOnRecords ==
  [][ /\ (Len(builders') > Len(builders) /\ builders[ret'.recv].cls \in RecordClasses) =>
           /\ builders'[ret'.b].req = builders[ret'.recv].req
           /\ Range(builders'[ret'.b].req) = Range(registered'[ret'.b])
      /\ ( /\ ret'.op \in RuntimeCheckedOps
           /\ ret'.kind = "value"
           /\ builders'[ret'.recv].cls \in RecordClasses
           /\ lineage'[ret'.recv].parent # 0 ) =>
           \A p \in Range(registered'[ret'.recv]) :
             Present(heap', builders'[ret'.recv].actual, p)
    ]_vars

\* C11: build() of a CeriosBuilder, called on a builder whose effective
\* manifest has a missing address, raises the "Missing required fields"
\* error and returns no value.
C11_BuildChecksRequiredFields ==
  (ret.op = "build" /\ OnRecord(ret.recv) /\ ExpectedMissing(ret.recv) # <<>>) =>
    /\ ret.kind = "error"
    /\ ret.val = Undef
    /\ ret.msg[1] = "Missing required fields: "

\* C11, as far as the code goes: the same for the builders that extend the
\* CeriosBuilder declared in cerios-class-builder.ts, a TypeError of the
\* validator apart
C11_BuildChecksExceptOrderRequest ==
  ( /\ ret.op = "build"
    /\ builders[ret.recv].cls \in {"PlainBuilder", "UserBuilder"}
    /\ ExpectedMissing(ret.recv) # <<>>
    /\ ret.kind # "typeerror" ) =>
    /\ ret.kind = "error"
    /\ ret.val = Undef
    /\ ret.msg[1] = "Missing required fields: "

C13_CheckedResultHasRequiredKeys ==
  ( /\ ret.op \in CompileTimeCheckedOps
    /\ ret.kind = "value"
    /\ NonOptionalKeys \subseteq Brand(ret.recv) ) =>
    \A k \in NonOptionalKeys : HasKey(heap, ret.val, k)

\* a class-instance builder whose class ignores the data passed to it, after
\* a key was set on it, returned a sealed instance
C13_Witness ==
  /\ ret.op = "buildDeepSealed"
  /\ ret.kind = "value"
  /\ builders[ret.recv].cls = "AddressBuilder"
  /\ lineage[ret.recv].parent # 0
  /\ NonOptionalKeys \subseteq Brand(ret.recv)

\* C14: the type-state of a builder made by a transition is its receiver's
\* type-state united with the keys the transition sets (the first segment
\* only for setNestedProperty), so it contains the receiver's; and every key
\* of a builder's type-state is an own key of its partial instance.
\* setRequiredFields makes no builder and leaves every type-state as it is.
C14_TypeStateGrowsAndIsSet ==
  \A b \in 1..Len(builders) :
    /\ \A k \in Brand(b) : HasKey(heap, builders[b].actual, k)
    /\ lineage[b].parent # 0 =>
         /\ Brand(lineage[b].parent) \subseteq Brand(b)
         /\ lineage[b].op = "setNestedProperty" =>
              Brand(b) \ Brand(lineage[b].parent) \subseteq {Split(lineage[b].in[1])[1]}

\* a chain of two transitions, the second a setNestedProperty, whose builder
\* carries both keys
C14_Witness ==
  /\ Len(builders) = 3
  /\ lineage[3].parent = 2
  /\ lineage[3].op = "setNestedProperty"
  /\ Brand(2) = {"b"}
  /\ Brand(3) = {"a", "b"}
\* The non-null values a caller corrects a reported address with: 1 or {b: 1}
FixValues == {"n1", "objB1"}

\* The orders in which the addresses of a list can be taken, each once
Orders(list) ==
  {o \in [1..Cardinality(Range(list)) -> Range(list)] :
     \A i, j \in DOMAIN o : o[i] = o[j] => i = j}

\* p is a proper prefix of q, as paths
Above(p, q) ==
  /\ Len(Split(p)) < Len(Split(q))
  /\ SubSeq(Split(q), 1, Len(Split(p))) = Split(p)

\* An order that sets no address after an address below it
ParentFirst(o) == \A i, j \in DOMAIN o : i < j => ~Above(o[j], o[i])

\* The builder derived from b by one transition per address of order o, a
\* setProperty for a top-level address and a setNestedProperty for a nested
\* one, with the values vals
RECURSIVE Corrected(_, _, _, _, _, _)
Corrected(h, bs, b, o, vals, i) ==
  IF i > Len(o) THEN [h |-> h, bs |-> bs, b |-> b]
  ELSE LET r == IF Len(Split(o[i])) = 1
                THEN setProperty(h, bs, b, Split(o[i])[1], vals[i])
                ELSE setNestedProperty(h, bs, b, o[i], vals[i])
       IN Corrected(r.h, r.bs, Len(r.bs), o, vals, i + 1)

\* The same finalize call succeeds on the builder corrected in order o
Refinalizes(o, vals) ==
  LET c == Corrected(heap, builders, ret.recv, o, vals, 1)
  IN finalize(c.h, c.bs, c.b, ret.op).out.kind = "value"

\* The same finalize call on the same builder raises the same error
RaisesAgain == finalize(heap, builders, ret.recv, ret.op).out = ret

\* A finalize call that raises "Missing required fields" leaves the heap,
\* every builder and every dynamic required set as they were
FailedFinalizeChangesNothing ==
  ret'.kind = "error" =>
    heap' = heap /\ builders' = builders /\ registered' = registered

\* C15 as stated: a finalize call that raises "Missing required fields"
\* leaves the heap, every builder and every dynamic required set as they
\* were; the same call on the builder raises the same error again; and the
\* builder derived from it by setting every reported address to a non-null
\* value, in any order, finalizes successfully under the same call.
C15_FailedFinalizeRecoverableAnyOrder ==
  /\ [][FailedFinalizeChangesNothing]_vars
  /\ [](ret.kind = "error" =>
          /\ RaisesAgain
          /\ \A o \in Orders(Addresses(ret.msg)) :
               \A vals \in [DOMAIN o -> FixValues] : Refinalizes(o, vals))

\* C15, amended: as above, for the orders that set no reported address after
\* a reported address below it (a before a.b): setting a to 1 after a.b
\* removes a.b again.
C15_FailedFinalizeRecoverable ==
  /\ [][FailedFinalizeChangesNothing]_vars
  /\ [](ret.kind = "error" =>
          /\ RaisesAgain
          /\ \A o \in Orders(Addresses(ret.msg)) :
               ParentFirst(o) =>
                 \A vals \in [DOMAIN o -> FixValues] : Refinalizes(o, vals))

\* a finalize call raised with two addresses reported, which a corrected
\* builder then passes
C15_Witness ==
  /\ ret.kind = "error"
  /\ Len(Addresses(ret.msg)) = 2
  /\ RaisesAgain
  /\ \E o \in Orders(Addresses(ret.msg)) :
       ParentFirst(o) /\ Refinalizes(o, [i \in DOMAIN o |-> "n1"])
\* A call that raised: the "Missing required fields" error or a TypeError
Raised(r) == r.kind \in {"error", "typeerror"} /\ r.val = Undef

\* The call leaves every object reachable from the partial instance of
\* builder b as frozen or sealed as it was
LocksUntouched(b) ==
  \A o \in Reach(heap, builders[b].actual) :
    o <= Len(heap') /\ heap'[o].lock = heap[o].lock

\* C16: a call of buildFrozen, buildDeepFrozen, buildSealed or buildDeepSealed
\* on a builder with a required address missing raises, returns no value, and
\* freezes or seals nothing reachable from the partial instance.
C16_LockOnlyAfterCheck ==
  [][ (ret'.op \in LockOps /\ ExpectedMissing(ret'.recv) # <<>>) =>
        Raised(ret') /\ LocksUntouched(ret'.recv) ]_vars

\* C16 on CeriosBuilder alone
C16_LockOnlyAfterCheckOnRecords ==
  [][ (ret'.op \in LockOps /\ OnRecord(ret'.recv) /\ ExpectedMissing(ret'.recv) # <<>>) =>
        Raised(ret') /\ LocksUntouched(ret'.recv) ]_vars

\* a freeze or seal variant raised on a CeriosBuilder
C16_RaiseReached ==
  ret.op \in LockOps /\ ret.kind = "error" /\ OnRecord(ret.recv)
\* The objects and arrays below the root of a value
Nested(h, v) == Reach(h, v) \ {v.v}

\* The value buildFrozen hands back is frozen at the top only
ShallowFrozen(h, v) ==
  /\ IsFrozen(h, v.v)
  /\ \A o \in Nested(h, v) : ~IsFrozen(h, o) /\ \A k \in Keys : CanSet(h, o, k)

\* The value buildSealed hands back is sealed, and each of its properties
\* can be assigned
SealedWritable(h, v) ==
  /\ IsSealed(h, v.v)
  /\ \A k \in Keys : HasKey(h, v, k) => CanSet(h, v.v, k)

\* C17: on every builder, whatever transitions and finalize calls came
\* before, buildFrozen returns a value that is frozen at the top while the
\* objects nested in it are not frozen and can be written, and buildSealed
\* returns a sealed value whose existing properties can still be assigned.
C17_ShallowLockAfterAnyHistory ==
  /\ (ret.op = "buildFrozen" /\ ret.kind = "value") => ShallowFrozen(heap, ret.val)
  /\ (ret.op = "buildSealed" /\ ret.kind = "value") => SealedWritable(heap, ret.val)

\* C17 for a call made while nothing reachable from the builder is frozen
\* or sealed yet
C17_ShallowLockOnOpenData ==
  [][ ( /\ ret'.kind = "value"
        /\ \A o \in Reach(heap, builders[ret'.recv].actual) : heap[o].lock = "open" ) =>
        /\ ret'.op = "buildFrozen" => ShallowFrozen(heap', ret'.val)
        /\ ret'.op = "buildSealed" => SealedWritable(heap', ret'.val) ]_vars

\* buildFrozen returned a value with a nested object
C17_NestedReached ==
  ret.op = "buildFrozen" /\ ret.kind = "value" /\ Nested(heap, ret.val) # {}
\* Every object and array of the value is frozen
DeepFrozen(h, v) == \A o \in Reach(h, v) : IsFrozen(h, o)

\* Every object and array of the value is sealed, and each property or
\* element it has can be assigned
HasOwn(h, o) == h[o].elems # <<>> \/ \E k \in Keys : h[o].props[k].t # "absent"

DeepSealedWritable(h, v) ==
  \A o \in Reach(h, v) : IsSealed(h, o) /\ (HasOwn(h, o) => h[o].lock # "frozen")

\* C18: buildDeepFrozen returns a value whose root and every object and
\* array reachable from it is frozen; buildDeepSealed returns a value whose
\* root and every object and array reachable from it is sealed while the
\* existing properties at every level can still be assigned.
C18_DeepLock ==
  /\ (ret.op = "buildDeepFrozen" /\ ret.kind = "value") => DeepFrozen(heap, ret.val)
  /\ (ret.op = "buildDeepSealed" /\ ret.kind = "value") => DeepSealedWritable(heap, ret.val)

\* C18 for a call made while nothing reachable from the builder is frozen yet
C18_DeepLockOnOpenData ==
  [][ ( /\ ret'.kind = "value"
        /\ \A o \in Reach(heap, builders[ret'.recv].actual) : heap[o].lock = "open" ) =>
        /\ ret'.op = "buildDeepFrozen" => DeepFrozen(heap', ret'.val)
        /\ ret'.op = "buildDeepSealed" => DeepSealedWritable(heap', ret'.val) ]_vars

\* the half of C18 about buildDeepFrozen, after any history
C18_DeepFrozenAlways ==
  (ret.op = "buildDeepFrozen" /\ ret.kind = "value") => DeepFrozen(heap, ret.val)

\* buildDeepSealed returned a value with a nested object
C18_NestedReached ==
  ret.op = "buildDeepSealed" /\ ret.kind = "value" /\ Nested(heap, ret.val) # {}
\* The finalize methods of CeriosClassBuilder that construct an instance
InstanceOps == (ClassOps \cup LockOps) \ {"buildPartial"}

\* The value is an object of its own: no builder holds it and no object or
\* array refers to it
Fresh(h, v) ==
  /\ \A b \in 1..Len(builders) : builders[b].actual # v
  /\ \A o \in 1..Len(h) :
       /\ \A k \in Keys : h[o].props[k] # v
       /\ \A i \in 1..Len(h[o].elems) : h[o].elems[i] # v

\* Every field with a defined value in the partial instance of builder b
\* reads the same value on v
CarriesFields(h, b, v) ==
  \A k \in Keys :
    Get(h, builders[b].actual, k) # Undef => Get(h, v, k) = Get(h, builders[b].actual, k)

\* C19: every finalize method of CeriosClassBuilder that constructs an
\* instance returns a new object in which every field that has a defined
\* value in the partial instance is present with that same value, whether
\* the constructor of the class copies the data passed to it or ignores it.
C19_InstanceCarriesEveryField ==
  (ret.kind = "value" /\ ~OnRecord(ret.recv) /\ ret.op \in InstanceOps) =>
    Fresh(heap, ret.val) /\ CarriesFields(heap, ret.recv, ret.val)

\* C19 for the classes without field initialisers
C19_CarriesEveryFieldWithoutDefaults ==
  ( /\ ret.kind = "value" /\ ret.op \in InstanceOps
    /\ builders[ret.recv].cls \in {"PersonBuilder", "AddressBuilder"} ) =>
    Fresh(heap, ret.val) /\ CarriesFields(heap, ret.recv, ret.val)

\* an instance of a class that ignores its data was built from a partial
\* instance with a defined field
C19_IgnoringReached ==
  /\ ret.kind = "value" /\ ret.op \in InstanceOps
  /\ builders[ret.recv].cls = "AddressBuilder"
  /\ lineage[ret.recv].parent # 0
  /\ \E k \in Keys : Get(heap, ret.val, k) \notin {Undef, Null}
\* The finalize methods of CeriosClassBuilder documented as checking the
\* required fields at run time
ClassCheckedOps == {"build", "buildWithoutCompileTimeValidation"} \cup LockOps

\* C20: on a CeriosClassBuilder with a required data property missing from
\* the partial instance, build, buildWithoutCompileTimeValidation,
\* buildFrozen, buildDeepFrozen, buildSealed and buildDeepSealed raise
\* "Missing required fields: " followed by the missing addresses, and
\* buildUnsafe returns an instance without raising.
C20_ClassBuilderChecksRequiredFields ==
  (ret.op \in ClassCheckedOps \cup {"buildUnsafe"} /\ ~OnRecord(ret.recv)
     /\ ExpectedMissing(ret.recv) # <<>>) =>
    IF ret.op = "buildUnsafe"
    THEN ret.kind = "value"
    ELSE /\ ret.kind = "error"
         /\ ret.msg[1] = "Missing required fields: "
         /\ Addresses(ret.msg) = ExpectedMissing(ret.recv)

\* the half of C20 about buildUnsafe
C20_BuildUnsafeNeverRaises ==
  (ret.op = "buildUnsafe" /\ ~OnRecord(ret.recv)) => ret.kind = "value"

\* buildUnsafe was called on a CeriosClassBuilder with a required data
\* property missing
C20_UnsafeReached ==
  ret.op = "buildUnsafe" /\ ~OnRecord(ret.recv) /\ ExpectedMissing(ret.recv) # <<>>

(***************************************************************************)
(* Custom validators at finalize.                                          *)
(***************************************************************************)
\* The validators of builder b that fail on its partial instance, by position
FailingValidators(b) ==
  {i \in 1..Len(validators[b]) :
     ~Validate(validators[b][i], heap, builders[b].actual).ok}

\* What the failure of the validator at position i of builder b reads
FailureOf(b, i) ==
  LET text == Validate(validators[b][i], heap, builders[b].actual).text
  IN IF text = "" THEN <<"Validation failed">> ELSE <<text>>

\* The messages between the "; " separators of the body of an error message
RECURSIVE Reported(_, _)
Reported(toks, cur) ==
  IF toks = <<>> THEN <<cur>>
  ELSE IF Head(toks) = "; " THEN <<cur>> \o Reported(Tail(toks), <<>>)
  ELSE Reported(Tail(toks), Append(cur, Head(toks)))

C21_GenericReached ==
  /\ ret.kind = "invalid"
  /\ Includes(ret.msg, "Validation failed")

\* C22: a builder made by a transition or by clone carries the validators of
\* its receiver, in the same order (addValidator adds its validator at the
\* end); build and buildWithoutCompileTimeValidation run them, raising when
\* one fails on a partial instance whose required fields are all present
\* (and returning no value when fields are missing too);
\* buildUnsafe, buildWithoutRuntimeValidation and buildPartial do not run
\* them and return the partial instance whatever the validators say.
C22_ValidatorsCarriedAndRun ==
  /\ \A b \in 1..Len(builders) :
       lineage[b].parent # 0 =>
         validators[b] = IF lineage[b].op = "addValidator"
                         THEN Append(validators[lineage[b].parent], lineage[b].in[1])
                         ELSE validators[lineage[b].parent]
  /\ ret.op \in {"build", "buildWithoutCompileTimeValidation"} =>
       /\ FailingValidators(ret.recv) # {} => ret.kind \in {"invalid", "error", "typeerror"}
       /\ FailingValidators(ret.recv) # {} /\ ExpectedMissing(ret.recv) = <<>>
            => ret.kind = "invalid"
  /\ ret.op \in UncheckedOps =>
       /\ ret.kind = "value"
       /\ OnRecord(ret.recv) =>
            Content(heap, ret.val) = Content(heap, builders[ret.recv].actual)

\* A validator registered with addValidator rejects, at build, a value set
\* by a later transition
C22_Witness ==
  /\ ret.kind = "invalid"
  /\ ret.op = "build"
  /\ lineage[ret.recv].op = "setProperty"
  /\ lineage[lineage[ret.recv].parent].op = "addValidator"

\* buildUnsafe returns the partial instance of a builder whose validators fail
C22_SkippedReached ==
  /\ ret.op = "buildUnsafe"
  /\ ret.kind = "value"
  /\ FailingValidators(ret.recv) # {}
  /\ lineage[ret.recv].op = "clone"

(***************************************************************************)
(* Builders made from an existing value.                                   *)
(***************************************************************************)
\* The value the builder b was made from
FromValue(b) == lineage[b].in[2]

\* C23: buildUnsafe on a builder made by from(v), before any write into a
\* returned value, returns a value with the content of v that is not v and
\* shares no object or array with v; and no call on a builder and no write
\* into a returned value changes the content of v.
C23_FromRoundTrip ==
  /\ [](/\ ret.op = "buildUnsafe"
        /\ ret.kind = "value"
        /\ writes = 0
        => /\ lineage[ret.recv].op = "from" =>
                /\ Content(heap, ret.val) = Content(heap, FromValue(ret.recv))
                /\ ret.val # FromValue(ret.recv)
                /\ Reach(heap, ret.val) \cap Reach(heap, FromValue(ret.recv)) = {})
  /\ [][\A b \in 1..Len(builders) :
          lineage[b].op = "from" =>
            Content(heap', FromValue(b)) = Content(heap, FromValue(b))]_vars

\* The round trip for the classes whose fields have no initialiser
C23_FromRoundTripWithoutDefaults ==
  /\ ret.op = "buildUnsafe"
  /\ ret.kind = "value"
  /\ writes = 0
  /\ lineage[ret.recv].op = "from"
  /\ builders[ret.recv].cls # "CounterBuilder"
  => /\ Content(heap, ret.val) = Content(heap, FromValue(ret.recv))
     /\ ret.val # FromValue(ret.recv)
     /\ Reach(heap, ret.val) \cap Reach(heap, FromValue(ret.recv)) = {}

\* The value a builder was made from keeps its content
C23_FromValueNeverAltered ==
  [][\A b \in 1..Len(builders) :
       lineage[b].op = "from" =>
         Content(heap', FromValue(b)) = Content(heap, FromValue(b))]_vars

\* A write into a nested object of the value buildUnsafe returned for a
\* builder made by from
C23_WriteReached ==
  /\ ret.kind = "mutated"
  /\ ret.op = "buildUnsafe"
  /\ lineage[ret.recv].op = "from"
  /\ Content(heap, ret.val) # Content(heap, FromValue(ret.recv))

(***************************************************************************)
(* The keys of the partial instance.                                       *)
(***************************************************************************)
\* Object.keys(o)
OwnKeys(h, v) == {k \in Keys : h[v.v].props[k].t # "absent"}

\* The keys of the data the first builder of the chain of b was constructed with
RECURSIVE InitialKeys(_)
InitialKeys(b) ==
  IF lineage[b].parent # 0 THEN InitialKeys(lineage[b].parent)
  ELSE IF lineage[b].in[2] = "nested" THEN {"a"} ELSE {}

\* The keys supplied to builder b so far
Supplied(b) == InitialKeys(b) \cup Brand(b)

IsPrefix(p, q) == Len(p) <= Len(q) /\ SubSeq(q, 1, Len(p)) = p

\* The content of the value a literal of the caller denotes
LitContent(lit) == LET a == Alloc(<<>>, lit) IN Content(a.h, a.v)

\* The content with value (of content vc) at the address keys of a value of
\* content c: what lies at or below the address is replaced by the value, an
\* intermediate segment that holds no object becomes an object, and every
\* other entry stays
WithValueAt(c, keys, vc) ==
  LET Inter == {SubSeq(keys, 1, i) : i \in 1..(Len(keys) - 1)}
      HoldsObject(p) == \E e \in c : e[1] = p /\ e[2] \in {"obj", "arr"}
  IN {e \in c : /\ ~IsPrefix(keys, e[1])
                /\ ~(e[1] \in Inter /\ ~HoldsObject(e[1]))}
       \cup {<<p, "obj", 0>> : p \in {q \in Inter : ~HoldsObject(q)}}
       \cup {<<keys \o e[1], e[2], e[3]>> : e \in vc}

Items(b, key) ==
  LET cur == Get(heap, builders[b].actual, key)
  IN IF IsNullish(cur) THEN <<>> ELSE heap[cur.v].elems

\* The values the chain of b added to key, in call order, and whether no
\* other call of the chain and no initial data supplied key
RECURSIVE Added(_, _)
Added(b, key) ==
  IF lineage[b].parent = 0 THEN <<>>
  ELSE IF lineage[b].op = "addToArrayProperty" /\ lineage[b].in[1] = key
  THEN Append(Added(lineage[b].parent, key), ScalarOf(lineage[b].in[2]))
  ELSE Added(lineage[b].parent, key)

RECURSIVE OnlyAdded(_, _)
OnlyAdded(b, key) ==
  IF lineage[b].parent = 0 THEN key \notin InitialKeys(b)
  ELSE /\ OnlyAdded(lineage[b].parent, key)
       /\ \/ lineage[b].op = "addToArrayProperty"
          \/ key \notin BrandKeys(lineage[b].op, lineage[b].in)

\* C26: the array at key of the builder addToArrayProperty(key, v) returns
\* is a new array holding the items of the receiver's array (none when the
\* key is unset, null or undefined) followed by v; n calls on a key nothing
\* else supplied give the n values in call order; the call changes no
\* object that existed before, so the receiver's array stays as it was.
C26_AddToArrayAppends ==
  /\ [](ret.op = "addToArrayProperty" /\ ret.kind = "builder" =>
          LET key == lineage[ret.b].in[1]
              new == Get(heap, builders[ret.b].actual, key)
          IN /\ IsArray(heap, new)
             /\ heap[new.v].elems =
                  Append(Items(ret.recv, key), ScalarOf(lineage[ret.b].in[2]))
             /\ new # Get(heap, builders[ret.recv].actual, key))
  /\ [](\A b \in 1..Len(builders), key \in Keys :
          OnlyAdded(b, key) /\ Added(b, key) # <<>> => Items(b, key) = Added(b, key))
  /\ [][ret'.op = "addToArrayProperty" =>
          \A o \in 1..Len(heap) : heap'[o] = heap[o]]_vars

\* Two calls on an unset key give the two values in call order
C26_Witness ==
  /\ ret.op = "addToArrayProperty"
  /\ ret.kind = "builder"
  /\ OnlyAdded(ret.b, "a")
  /\ Items(ret.recv, "a") = <<Num(2)>>
  /\ Items(ret.b, "a") = <<Num(2), Num(1)>>

\* A call on a key that holds null
C26_NullReached ==
  /\ ret.op = "addToArrayProperty"
  /\ ret.kind = "builder"
  /\ Get(heap, builders[ret.recv].actual, "b") = Null
  /\ Items(ret.b, "b") = <<Num(2)>>

(***************************************************************************)
(* setProperty and setProperties.                                          *)
(***************************************************************************)
\* The literal of the caller that denotes a scalar value
LitOf(v) ==
  CASE v = Undef -> "undef"
    [] v = Null -> "null"
    [] v = Num(1) -> "n1"
    [] v = Num(2) -> "n2"

\* setProperty(key, props[key]) for the keys of props from position i on,
\* each call on the builder the call before returned, starting on builder b
RECURSIVE SetEach(_, _, _, _, _)
SetEach(h, bs, b, props, i) ==
  IF i > Len(KeyOrder) THEN [h |-> h, bs |-> bs, b |-> b]
  ELSE IF props[KeyOrder[i]].t = "absent" THEN SetEach(h, bs, b, props, i + 1)
  ELSE LET r == setProperty(h, bs, b, KeyOrder[i], LitOf(props[KeyOrder[i]]))
       IN SetEach(r.h, r.bs, r.out.b, props, i + 1)

\* C27: the builder setProperty(key, value) returns holds value at key,
\* whatever was there, and at every other key exactly what the receiver
\* holds; the builder setProperties(props) returns has the partial instance
\* that setProperty gives when called once for each key of props.
C27_SetPropertyLastWriteWins ==
  /\ ret.op = "setProperty" /\ ret.kind = "builder" =>
       LET key == lineage[ret.b].in[1]
           new == heap[builders[ret.b].actual.v].props
           old == heap[builders[ret.recv].actual.v].props
       IN /\ Content(heap, new[key]) = LitContent(lineage[ret.b].in[2])
          /\ \A k \in Keys \ {key} : new[k] = old[k]
  /\ ret.op = "setProperties" /\ ret.kind = "builder" =>
       LET r == SetEach(heap, builders, ret.recv, lineage[ret.b].in[1], 1)
       IN Content(heap, builders[ret.b].actual) = Content(r.h, r.bs[r.b].actual)

\* setProperty replaces a value an earlier call put at the key
C27_Witness ==
  /\ ret.op = "setProperty"
  /\ ret.kind = "builder"
  /\ lineage[ret.b].in = <<"a", "n1">>
  /\ lineage[ret.recv].op = "setProperty"
  /\ lineage[ret.recv].in = <<"a", "objB1">>
  /\ Get(heap, builders[ret.b].actual, "a") = Num(1)

\* setProperties with one key on a builder that holds that key and another
C27_SeveralReached ==
  /\ ret.op = "setProperties"
  /\ ret.kind = "builder"
  /\ OwnKeys(heap, builders[ret.recv].actual) = {"a", "b"}
  /\ lineage[ret.b].in[1] = [NoProps EXCEPT !["b"] = Num(2)]
  /\ Get(heap, builders[ret.recv].actual, "b") # Num(2)

(***************************************************************************)
(* Calls on different keys, in either order.                               *)
(***************************************************************************)
KeyedOps == {"setProperty", "addToArrayProperty", "setNestedProperty"}

\* Builder n was made by two calls of KeyedOps, on different top-level keys,
\* the first on builder g
TwoKeys(n, g) ==
  /\ lineage[n].parent # 0
  /\ lineage[lineage[n].parent].parent = g
  /\ g # 0
  /\ lineage[n].op \in KeyedOps
  /\ lineage[lineage[n].parent].op \in KeyedOps
  /\ BrandKeys(lineage[n].op, lineage[n].in)
       \cap BrandKeys(lineage[lineage[n].parent].op, lineage[lineage[n].parent].in) = {}

\* The two calls that made n, made on g in the opposite order
Swapped(n, g) ==
  LET p == lineage[n].parent
      first == Apply([h |-> heap, bs |-> SubSeq(builders, 1, g)], lineage[n].op, lineage[n].in)
  IN IF first.out.kind # "builder" THEN first
     ELSE Apply([h |-> first.h, bs |-> first.bs], lineage[p].op, lineage[p].in)

\* C28: when a builder was made by two calls of setProperty,
\* addToArrayProperty or setNestedProperty on different top-level keys, the
\* same two calls in the opposite order give a builder too, and every
\* finalize method has the same outcome on both: equal values, or the same
\* error.
C28_DistinctKeysCommute ==
  \A n \in 1..Len(builders), g \in 1..Len(builders) :
    TwoKeys(n, g) =>
      LET sw == Swapped(n, g)
      IN /\ sw.out.kind = "builder"
         /\ \A op \in OpsOf(builders[n].cls) :
              LET here == finalize(heap, builders, n, op)
                  there == finalize(sw.h, sw.bs, Len(sw.bs), op)
              IN /\ here.out.kind = there.out.kind
                 /\ here.out.msg = there.out.msg
                 /\ Content(here.h, here.out.val) = Content(there.h, there.out.val)

\* A builder made by addToArrayProperty on b and then setNestedProperty
\* under a, on a builder that held a nested object at a
C28_Witness ==
  /\ Len(builders) = 3
  /\ TwoKeys(3, 1)
  /\ lineage[2].op = "addToArrayProperty"
  /\ lineage[3].op = "setNestedProperty"
  /\ OwnKeys(heap, builders[1].actual) = {"a"}
  /\ ret.b = 3

(***************************************************************************)
(* The required-field check has no side effects.                           *)
(***************************************************************************)
\* C29: a finalize method that checks the required fields at run time
\* changes no object that existed before the call, no builder and no
\* dynamic required set, whatever its outcome; and the same call on the same
\* builder, made again, has the same outcome: the same error, or a value
\* of the same content.
C29_RequiredCheckHasNoSideEffects ==
  /\ [][ret'.op \in CheckedOps =>
          /\ builders' = builders
          /\ registered' = registered
          /\ \A o \in 1..Len(Live) : heap'[o] = heap[o]]_vars
  /\ [](ret.op \in CheckedOps =>
          LET again == finalize(Live, builders, ret.recv, ret.op)
          IN /\ again.out.kind = ret.kind
             /\ again.out.msg = ret.msg
             /\ Content(again.h, again.out.val) = Content(heap, ret.val)
             /\ getRequiredTemplate(again.bs[ret.recv]) = getRequiredTemplate(builders[ret.recv]))

\* A checked finalize returned a value on a builder with a registered
\* required set, and one raised on a builder that misses two addresses
C29_Witness ==
  /\ ret.op = "buildWithoutCompileTimeValidation"
  /\ ret.kind = "value"
  /\ registered[ret.recv] # <<>>
  /\ OnRecord(ret.recv)

C29_RaiseReached ==
  /\ ret.op = "buildSafe"
  /\ ret.kind = "error"
  /\ Len(ExpectedMissing(ret.recv)) = 2

(***************************************************************************)
(* Setting an address satisfies the requirement on it.                     *)
(***************************************************************************)
\* The address a call of setProperty or setNestedProperty names
AddressSet(op, in) == IF op = "setProperty" THEN <<in[1]>> ELSE in[1]

\* C30: after setProperty(k, v) or setNestedProperty(p, v) with v neither
\* null nor undefined, the required-field check of the builder returned
\* does not list the address k (resp. p) as missing, whatever the receiver
\* held and whether or not the address is in the manifest.
C30_SetAddressNotReported ==
  /\ ret.op \in {"setProperty", "setNestedProperty"}
  /\ ret.kind = "builder"
  /\ lineage[ret.b].in[2] \notin {"undef", "null"}
  /\ OnRecord(ret.b)
  => LET r == validateRequiredFields(heap, builders[ret.b])
     IN ~Includes(r.missing, AddressSet(ret.op, lineage[ret.b].in))

\* a.b is in the manifest and is set by path on a builder that holds a
\* number at a; the check of the builder returned lists nothing
C30_Witness ==
  /\ ret.op = "setNestedProperty"
  /\ ret.kind = "builder"
  /\ lineage[ret.b].in = <<PathAB, "n1">>
  /\ Includes(getRequiredTemplate(builders[ret.b]), PathAB)
  /\ Get(heap, builders[ret.recv].actual, "a") = Num(1)
  /\ validateRequiredFields(heap, builders[ret.b]) = [threw |-> FALSE, missing |-> <<>>]

\* a is in the manifest and is set to an object
C30_ObjectReached ==
  /\ ret.op = "setProperty"
  /\ ret.kind = "builder"
  /\ lineage[ret.b].in = <<"a", "objB1">>
  /\ Includes(getRequiredTemplate(builders[ret.b]), PathA)
====
